---- MODULE Spec2Model ----
(***************************************************************************)
(* Model of src/mag7_agent.py: the RenderOptimizer time-window classifier  *)
(* (should_run_now and its predicates), the trading_agent_worker loop and  *)
(* the Flask handlers of /, /status and /test-alert.                       *)
(*                                                                         *)
(* A datetime is the record of its fields.  Every datetime the program     *)
(* handles carries the same tzinfo (datetime.now(self.est), then replace   *)
(* and timedelta arithmetic, which keep the tzinfo), so comparison and     *)
(* arithmetic are those of the naive fields.  day is a day ordinal; day 0  *)
(* is a Monday, so weekday() is day % 7 (Monday = 0 ... Sunday = 6).       *)
(***************************************************************************)
EXTENDS Integers, Sequences, FiniteSets, TLC

VARIABLES
    dt,             \* classifier run: the instant datetime.now(self.est) returns
    tzinfo,         \* classifier run: the tzinfo of a datetime handed to the predicates
    probe,          \* classifier run: what the predicates returned for dt, or NoProbe
    decision,       \* classifier run: the dict should_run_now returned, or NoDecision
    now,            \* loop run: the wall clock
    lastDay,        \* loop run: the last day ordinal the clock may reach
    pc,             \* loop run: position of the worker thread
    is_running,     \* optimizer.is_running
    last_update,    \* optimizer.last_update
    status_message, \* optimizer.status_message
    last_alerts,    \* optimizer.last_alerts
    alert_count,    \* optimizer.alert_count
    status,         \* worker local: status
    strong_buys,    \* worker local: strong_buys
    sleep_seconds,  \* worker local: argument of the time.sleep in progress
    remaining,      \* seconds the time.sleep in progress still has to block
    loaded,         \* worker: the value of optimizer.alert_count loaded by line 164
    handler,        \* the thread serving an HTTP request
    hist            \* history of the current iteration (observation only)

vars == <<dt, tzinfo, probe, decision, now, lastDay, pc, is_running, last_update,
          status_message, last_alerts, alert_count, status, strong_buys,
          sleep_seconds, remaining, loaded, handler, hist>>

inputVars == <<dt, tzinfo, probe, decision, lastDay>>

(***************************************************************************)
(* Bounds                                                                  *)
(***************************************************************************)
\* last day ordinal of the inputs of the classifier run (0 = Monday)
MaxInputDay == 6
\* last day ordinal the clock of the loop run may reach
MaxDay == 6
\* the clock advances in steps of at most this many seconds during a sleep
TickSeconds == 1800
\* no further alert batch is produced once alert_count has reached this value
MaxAlerts == 2
\* HTTP requests served in a run
MaxRequests == 1
\* last day ordinal the clock of the server run may reach
MaxServerDay == 4
\* days after its first the clock of the weekday run may reach
WeekdayRunDays == 1

Hours == 0..23
Minutes == {0, 1, 29, 30, 31, 59}
Seconds == {0, 1, 59}
Micros == {0, 1, 999999}

Instants ==
    [day : 0..MaxInputDay, hour : Hours, minute : Minutes,
     second : Seconds, microsecond : Micros]

(***************************************************************************)
(* datetime                                                                *)
(***************************************************************************)
DT(d, h, m, s, us) ==
    [day |-> d, hour |-> h, minute |-> m, second |-> s, microsecond |-> us]

\* datetime.weekday()
weekday(d) == d.day % 7

\* datetime.replace(hour=h, minute=m, second=s, microsecond=us)
replace(d, h, m, s, us) == DT(d.day, h, m, s, us)

SecondOfDay(d) == d.hour * 3600 + d.minute * 60 + d.second

\* a < b on datetimes of one tzinfo
dt_lt(a, b) ==
    \/ a.day < b.day
    \/ /\ a.day = b.day
       /\ \/ SecondOfDay(a) < SecondOfDay(b)
          \/ /\ SecondOfDay(a) = SecondOfDay(b)
             /\ a.microsecond < b.microsecond

\* a <= b on datetimes of one tzinfo
dt_le(a, b) == a = b \/ dt_lt(a, b)

\* d + timedelta(seconds=secs), secs >= 0
add_seconds(d, secs) ==
    LET tot == SecondOfDay(d) + secs
        r   == tot % 86400
    IN  DT(d.day + (tot \div 86400), r \div 3600, (r % 3600) \div 60, r % 60,
           d.microsecond)

\* d + timedelta(days=n)
add_days(d, n) == DT(d.day + n, d.hour, d.minute, d.second, d.microsecond)

\* %I: the hour on the 12-hour clock
hour12(h) == IF h % 12 = 0 THEN 12 ELSE h % 12

\* %p
ampm(h) == IF h < 12 THEN "AM" ELSE "PM"

\* strftime("%I:%M %p ET")
strftime_IMp(d) == <<hour12(d.hour), d.minute, ampm(d.hour), "ET">>

\* strftime('%Y-%m-%d %I:%M:%S %p ET')
strftime_full(d) ==
    <<d.day, hour12(d.hour), d.minute, d.second, ampm(d.hour), "ET">>

(***************************************************************************)
(* RenderOptimizer                                                         *)
(***************************************************************************)
is_market_hours_close_excl(d) ==
    IF weekday(d) >= 5 THEN FALSE
    ELSE LET market_open  == replace(d, 9, 30, 0, 0)
             market_close == replace(d, 16, 0, 0, 0)
         IN  dt_le(market_open, d) /\ dt_lt(d, market_close)

is_market_hours_no_weekend_check(d) ==
    LET market_open  == replace(d, 9, 30, 0, 0)
        market_close == replace(d, 16, 0, 0, 0)
    IN  dt_le(market_open, d) /\ dt_le(d, market_close)

is_market_hours(d) ==
    IF weekday(d) >= 5 THEN FALSE
    ELSE LET market_open  == replace(d, 9, 30, 0, 0)
             market_close == replace(d, 16, 0, 0, 0)
         IN  dt_le(market_open, d) /\ dt_le(d, market_close)

is_extended_hours_8am(d) ==
    IF weekday(d) >= 5 THEN FALSE
    ELSE LET extended_open  == replace(d, 8, 0, 0, 0)
             extended_close == replace(d, 20, 0, 0, 0)
         IN  dt_le(extended_open, d) /\ dt_le(d, extended_close)

is_extended_hours(d) ==
    IF weekday(d) >= 5 THEN FALSE
    ELSE LET extended_open  == replace(d, 7, 0, 0, 0)
             extended_close == replace(d, 20, 0, 0, 0)
         IN  dt_le(extended_open, d) /\ dt_le(d, extended_close)

get_next_extended_open_no_friday(d) ==
    LET days_to_add ==
            IF weekday(d) >= 5 THEN 7 - weekday(d)
            ELSE IF d.hour >= 20 THEN 1
            ELSE 0
    IN  replace(add_days(d, days_to_add), 7, 0, 0, 0)

get_next_extended_open_skip_week(d) ==
    LET days_to_add ==
            IF weekday(d) = 4 /\ d.hour >= 20 THEN 3
            ELSE IF weekday(d) >= 5 THEN 14 - weekday(d)
            ELSE IF d.hour >= 20 THEN 1
            ELSE 0
    IN  replace(add_days(d, days_to_add), 7, 0, 0, 0)

get_next_extended_open(d) ==
    LET days_to_add ==
            IF weekday(d) = 4 /\ d.hour >= 20 THEN 3
            ELSE IF weekday(d) >= 5 THEN 7 - weekday(d)
            ELSE IF d.hour >= 20 THEN 1
            ELSE 0
    IN  replace(add_days(d, days_to_add), 7, 0, 0, 0)

Message(text, at) == [text |-> text, at |-> at]

should_run_now_weekend_runs(n) ==
    IF is_market_hours(n) THEN
        [should_run |-> TRUE, check_interval |-> 10,
         message |-> Message("Active market monitoring (9:30AM-4PM ET)", <<>>),
         next_check |-> add_seconds(n, 10 * 60)]
    ELSE IF is_extended_hours(n) \/ (weekday(n) >= 5 /\ n.hour >= 7 /\ n.hour < 20) THEN
        [should_run |-> TRUE, check_interval |-> 60,
         message |-> Message("Extended hours monitoring (7AM-8PM ET)", <<>>),
         next_check |-> add_seconds(n, 3600)]
    ELSE
        LET next_check == get_next_extended_open(n)
        IN  [should_run |-> FALSE, sleep_minutes |-> 240,
             message |-> Message("Deep sleep mode - Next check at",
                                 strftime_IMp(next_check)),
             next_check |-> next_check]

\* should_run_now, with n the value of datetime.now(self.est)
should_run_now(n) ==
    IF is_market_hours(n) THEN
        [should_run |-> TRUE, check_interval |-> 10,
         message |-> Message("Active market monitoring (9:30AM-4PM ET)", <<>>),
         next_check |-> add_seconds(n, 10 * 60)]
    ELSE IF is_extended_hours(n) THEN
        [should_run |-> TRUE, check_interval |-> 60,
         message |-> Message("Extended hours monitoring (7AM-8PM ET)", <<>>),
         next_check |-> add_seconds(n, 3600)]
    ELSE
        LET next_check == get_next_extended_open(n)
        IN  [should_run |-> FALSE, sleep_minutes |-> 240,
             message |-> Message("Deep sleep mode - Next check at",
                                 strftime_IMp(next_check)),
             next_check |-> next_check]

NoDecision == [none |-> TRUE]

(***************************************************************************)
(* Classifier run: one evaluation of should_run_now at an arbitrary        *)
(* reading of the clock.                                                   *)
(***************************************************************************)
Symbols == {"AAPL", "NVDA"}

NoHist ==
    [calls |-> 0, slept |-> 0, raised |-> FALSE, prevRaised |-> FALSE,
     evalAt |-> DT(0, 0, 0, 0, 0), stopPc |-> "none", sinceStop |-> 0,
     stamps |-> 0, messages |-> 0, msgStamp |-> <<>>,
     sendFailed |-> FALSE, sent |-> 0,
     startDay |-> -1, firstRunDay |-> -1, activeCallDay |-> -1]

\* a handler thread with no request in progress, n requests served so far
Idle(n) == [pc |-> "idle", served |-> n]

\* RenderOptimizer.__init__ and the locals of a worker not yet started
InitAgent ==
    /\ pc = "start"
    /\ is_running = FALSE
    /\ last_update = <<>>
    /\ status_message = Message("Initializing...", <<>>)
    /\ last_alerts = <<>>
    /\ alert_count = 0
    /\ status = NoDecision
    /\ strong_buys = <<>>
    /\ sleep_seconds = 0
    /\ remaining = 0
    /\ loaded = 0
    /\ handler = Idle(0)
    /\ hist = NoHist

NoProbe == [none |-> TRUE]

\* the tzinfo of a datetime: the zone of datetime.now(self.est), or None
TzInfos == {"US/Eastern", "naive"}

InitClassifier ==
    /\ dt \in Instants
    /\ tzinfo \in TzInfos
    /\ probe = NoProbe
    /\ decision = NoDecision
    /\ now = DT(0, 0, 0, 0, 0)
    /\ lastDay = MaxDay
    /\ InitAgent

agentVars == <<now, pc, is_running, last_update, status_message, last_alerts,
               alert_count, status, strong_buys, sleep_seconds, remaining,
               loaded, handler, hist>>

\* should_run_now; its instant is datetime.now(self.est), which is aware
Classify ==
    /\ decision = NoDecision
    /\ tzinfo = "US/Eastern"
    /\ decision' = should_run_now(dt)
    /\ UNCHANGED <<dt, tzinfo, probe, lastDay, agentVars>>

\* is_market_hours(dt), is_extended_hours(dt) and get_next_extended_open(dt)
\* called with a datetime of any tzinfo: weekday(), replace(), the comparison
\* of two datetimes of one tzinfo and timedelta addition never look at it
ClassifyInstant ==
    /\ probe = NoProbe
    /\ probe' = [market |-> is_market_hours(dt),
                 extended |-> is_extended_hours(dt),
                 next_open |-> get_next_extended_open(dt)]
    /\ UNCHANGED <<dt, tzinfo, decision, lastDay, agentVars>>

NextClassifier ==
    \/ Classify
    \/ ClassifyInstant

SpecClassifier == InitClassifier /\ [][NextClassifier]_vars

(***************************************************************************)
(* Loop run: trading_agent_worker on its thread, the wall clock, and the   *)
(* stop flag optimizer.is_running.                                         *)
(***************************************************************************)
StartInstants ==
    { DT(4, 15, 40, 0, 0),       \* Friday, Active window
      DT(6, 22, 0, 0, 1) }       \* Sunday night

Init ==
    /\ dt = DT(0, 0, 0, 0, 0)
    /\ tzinfo = "US/Eastern"
    /\ probe = NoProbe
    /\ decision = NoDecision
    /\ now \in StartInstants
    /\ lastDay = MaxDay
    /\ InitAgent

\* line 215: optimizer.is_running = True
Start ==
    /\ pc = "start"
    /\ is_running' = TRUE
    /\ pc' = "top"
    /\ hist' = [hist EXCEPT !.startDay = now.day]
    /\ UNCHANGED <<inputVars, loaded, handler, now, last_update, status_message, last_alerts,
                   alert_count, status, strong_buys, sleep_seconds, remaining>>

\* line 217: while optimizer.is_running
LoopTest ==
    /\ pc = "top"
    /\ IF is_running
       THEN /\ pc' = "log_status"
            /\ hist' = [hist EXCEPT !.calls = 0, !.slept = 0, !.raised = FALSE,
                                    !.prevRaised = hist.raised,
                                    !.stamps = 0, !.messages = 0,
                                    !.sendFailed = FALSE]
       ELSE /\ pc' = "done"
            /\ hist' = hist
    /\ UNCHANGED <<inputVars, loaded, handler, now, is_running, last_update, status_message,
                   last_alerts, alert_count, status, strong_buys, sleep_seconds,
                   remaining>>

\* log_status, lines 90-97: evaluate, take the timestamp, write last_update
LogStatusUpdate ==
    /\ pc = "log_status"
    /\ status' = should_run_now(now)
    /\ last_update' = strftime_full(now)
    /\ hist' = [hist EXCEPT
                  !.evalAt = now,
                  !.stamps = @ + 1,
                  !.firstRunDay = IF should_run_now(now).should_run
                                  THEN now.day ELSE @]
    /\ pc' = "log_message"
    /\ UNCHANGED <<inputVars, loaded, handler, now, is_running, status_message, last_alerts,
                   alert_count, strong_buys, sleep_seconds, remaining>>

LogStatusMessage_no_record ==
    /\ pc = "log_message"
    /\ pc' = IF status.should_run THEN "analyze" ELSE "deep_sleep"
    /\ UNCHANGED <<inputVars, loaded, handler, now, is_running, last_update, last_alerts,
                   alert_count, status, strong_buys, sleep_seconds, remaining,
                   status_message, hist>>

LogStatusMessage_always_runs ==
    /\ pc = "log_message"
    /\ status_message' = status.message
    /\ pc' = "analyze"
    /\ hist' = [hist EXCEPT !.messages = @ + 1,
                            !.msgStamp = strftime_full(hist.evalAt)]
    /\ UNCHANGED <<inputVars, loaded, handler, now, is_running, last_update, last_alerts,
                   alert_count, status, strong_buys, sleep_seconds, remaining>>

\* log_status, lines 98-105, and the branch of line 221
LogStatusMessage ==
    /\ pc = "log_message"
    /\ status_message' = status.message
    /\ pc' = IF status.should_run THEN "analyze" ELSE "deep_sleep"
    /\ hist' = [hist EXCEPT !.messages = @ + 1,
                            !.msgStamp = strftime_full(hist.evalAt)]
    /\ UNCHANGED <<inputVars, loaded, handler, now, is_running, last_update, last_alerts,
                   alert_count, status, strong_buys, sleep_seconds, remaining>>

\* what analyze_mag7_stocks may return
Batches == {<<>>} \cup {<<s>> : s \in Symbols}

\* line 225: strong_buys = analyze_mag7_stocks(); the callback returns a batch
\* or raises; line 227 branches on the batch
Analyze ==
    /\ pc = "analyze"
    /\ \E outcome \in {"returns", "raises"} :
         IF outcome = "raises"
         THEN /\ pc' = "except"
              /\ strong_buys' = strong_buys
              /\ hist' = [hist EXCEPT !.calls = @ + 1, !.raised = TRUE,
                                      !.activeCallDay =
                                          IF is_market_hours(now)
                                          THEN now.day ELSE @]
         ELSE \E b \in Batches :
              /\ alert_count + Len(b) <= MaxAlerts
              /\ strong_buys' = b
              /\ pc' = IF b /= <<>> THEN "send_email" ELSE "poll_wait"
              /\ hist' = [hist EXCEPT !.calls = @ + 1,
                                      !.activeCallDay =
                                          IF is_market_hours(now)
                                          THEN now.day ELSE @]
    /\ UNCHANGED <<inputVars, loaded, handler, now, is_running, last_update, status_message,
                   last_alerts, alert_count, status, sleep_seconds, remaining>>

\* what may happen to a send: the configuration is missing (return of line
\* 138), an SMTP step raises (caught at line 168), or the mail is sent
SendOutcomes == {"config_missing", "smtp_error", "sent"}

SendEmailAlert_raises_to_caller ==
    /\ pc = "send_email"
    /\ \E outcome \in SendOutcomes :
         IF outcome = "sent"
         THEN /\ last_alerts' = strong_buys
              /\ pc' = "count_load"
              /\ hist' = hist
         ELSE /\ last_alerts' = last_alerts
              /\ pc' = IF outcome = "smtp_error" THEN "except" ELSE "poll_wait"
              /\ hist' = [hist EXCEPT !.sendFailed = TRUE,
                                      !.raised = (outcome = "smtp_error")]
    /\ UNCHANGED <<inputVars, loaded, handler, now, is_running, last_update, status_message,
                   alert_count, status, strong_buys, sleep_seconds, remaining>>

\* send_email_alert called from line 228, lines 128-163 and 168-169: a failed
\* send returns to the caller; a successful one has written last_alerts
SendEmailAlert ==
    /\ pc = "send_email"
    /\ \E outcome \in SendOutcomes :
         IF outcome = "sent"
         THEN /\ last_alerts' = strong_buys
              /\ pc' = "count_load"
              /\ hist' = hist
         ELSE /\ last_alerts' = last_alerts
              /\ pc' = "poll_wait"
              /\ hist' = [hist EXCEPT !.sendFailed = TRUE]
    /\ UNCHANGED <<inputVars, loaded, handler, now, is_running, last_update, status_message,
                   alert_count, status, strong_buys, sleep_seconds, remaining>>

\* line 164, optimizer.alert_count += len(strong_buys): the attribute is loaded
AlertCountLoad ==
    /\ pc = "count_load"
    /\ loaded' = alert_count
    /\ pc' = "count_store"
    /\ UNCHANGED <<inputVars, handler, now, is_running, last_update, status_message,
                   last_alerts, alert_count, status, strong_buys, sleep_seconds,
                   remaining, hist>>

\* line 164: the sum is stored; send_email_alert returns to line 229
AlertCountStore ==
    /\ pc = "count_store"
    /\ alert_count' = loaded + Len(strong_buys)
    /\ hist' = [hist EXCEPT !.sent = @ + Len(strong_buys)]
    /\ pc' = "poll_wait"
    /\ UNCHANGED <<inputVars, loaded, handler, now, is_running, last_update, status_message,
                   last_alerts, status, strong_buys, sleep_seconds, remaining>>

PollWait_minutes_as_seconds ==
    /\ pc = "poll_wait"
    /\ sleep_seconds' = status.check_interval
    /\ remaining' = status.check_interval
    /\ pc' = "sleeping"
    /\ UNCHANGED <<inputVars, loaded, handler, now, is_running, last_update, status_message,
                   last_alerts, alert_count, status, strong_buys, hist>>

\* lines 234-236: time.sleep(status['check_interval'] * 60) is entered
PollWait ==
    /\ pc = "poll_wait"
    /\ sleep_seconds' = status.check_interval * 60
    /\ remaining' = status.check_interval * 60
    /\ pc' = "sleeping"
    /\ UNCHANGED <<inputVars, loaded, handler, now, is_running, last_update, status_message,
                   last_alerts, alert_count, status, strong_buys, hist>>

DeepSleep_hours_as_minutes ==
    /\ pc = "deep_sleep"
    /\ sleep_seconds' = status.sleep_minutes * 3600
    /\ remaining' = status.sleep_minutes * 3600
    /\ pc' = "sleeping"
    /\ UNCHANGED <<inputVars, loaded, handler, now, is_running, last_update, status_message,
                   last_alerts, alert_count, status, strong_buys, hist>>

\* lines 240-242: time.sleep(status['sleep_minutes'] * 60) is entered
DeepSleep ==
    /\ pc = "deep_sleep"
    /\ sleep_seconds' = status.sleep_minutes * 60
    /\ remaining' = status.sleep_minutes * 60
    /\ pc' = "sleeping"
    /\ UNCHANGED <<inputVars, loaded, handler, now, is_running, last_update, status_message,
                   last_alerts, alert_count, status, strong_buys, hist>>

HandleException_after_poll ==
    /\ pc = "except"
    /\ sleep_seconds' = status.check_interval * 60 + 300
    /\ remaining' = status.check_interval * 60 + 300
    /\ pc' = "sleeping"
    /\ UNCHANGED <<inputVars, loaded, handler, now, is_running, last_update, status_message,
                   last_alerts, alert_count, status, strong_buys, hist>>

HandleException_stops ==
    /\ pc = "except"
    /\ sleep_seconds' = 300
    /\ remaining' = 300
    /\ is_running' = FALSE
    /\ pc' = "sleeping"
    /\ UNCHANGED <<inputVars, loaded, handler, now, last_update, status_message,
                   last_alerts, alert_count, status, strong_buys, hist>>

\* lines 244-247: except Exception, time.sleep(300) is entered
HandleException ==
    /\ pc = "except"
    /\ sleep_seconds' = 300
    /\ remaining' = 300
    /\ pc' = "sleeping"
    /\ UNCHANGED <<inputVars, loaded, handler, now, is_running, last_update, status_message,
                   last_alerts, alert_count, status, strong_buys, hist>>

Min(a, b) == IF a <= b THEN a ELSE b

\* time passes while the worker is blocked in time.sleep
Tick ==
    /\ pc = "sleeping"
    /\ remaining > 0
    /\ LET step == Min(TickSeconds, remaining)
       IN  /\ add_seconds(now, step).day <= lastDay
           /\ now' = add_seconds(now, step)
           /\ remaining' = remaining - step
           /\ hist' = [hist EXCEPT !.slept = @ + step,
                                   !.sinceStop = IF is_running THEN @
                                                 ELSE @ + step]
    /\ UNCHANGED <<inputVars, loaded, handler, pc, is_running, last_update, status_message,
                   last_alerts, alert_count, status, strong_buys, sleep_seconds>>

\* time.sleep returns once its duration has elapsed; back to line 217
WakeUp ==
    /\ pc = "sleeping"
    /\ remaining = 0
    /\ pc' = "top"
    /\ UNCHANGED <<inputVars, loaded, handler, now, is_running, last_update, status_message,
                   last_alerts, alert_count, status, strong_buys, sleep_seconds,
                   remaining, hist>>

\* the stop signal: another thread clears optimizer.is_running
RequestStop ==
    /\ pc \notin {"start", "done"}
    /\ is_running
    /\ is_running' = FALSE
    /\ hist' = [hist EXCEPT !.stopPc = pc]
    /\ UNCHANGED <<inputVars, loaded, handler, now, pc, last_update, status_message,
                   last_alerts, alert_count, status, strong_buys, sleep_seconds,
                   remaining>>

Worker ==
    \/ Start
    \/ LoopTest
    \/ LogStatusUpdate
    \/ LogStatusMessage
    \/ Analyze
    \/ SendEmailAlert
    \/ AlertCountLoad
    \/ AlertCountStore
    \/ PollWait
    \/ DeepSleep
    \/ HandleException
    \/ WakeUp

Next ==
    \/ Start
    \/ LoopTest
    \/ LogStatusUpdate
    \/ LogStatusMessage
    \/ Analyze
    \/ SendEmailAlert
    \/ AlertCountLoad
    \/ AlertCountStore
    \/ PollWait
    \/ DeepSleep
    \/ HandleException
    \/ WakeUp
    \/ Tick
    \/ RequestStop

Spec == Init /\ [][Next]_vars

\* the worker thread is scheduled and time passes
FairSpec == Spec /\ WF_vars(Worker) /\ WF_vars(Tick)

(***************************************************************************)
(* Weekday run: the loop run started in the Dormant hours of the evening   *)
(* before a weekday, followed through that weekday.                        *)
(***************************************************************************)
WeekdayStartInstants ==
    { DT(3, 20, 30, 0, 0),       \* Thursday evening
      DT(3, 22, 59, 0, 0),       \* Thursday evening, waking 06:59 and 10:59
      DT(6, 23, 0, 0, 0) }       \* Sunday evening, waking 07:00

InitWeekday ==
    /\ dt = DT(0, 0, 0, 0, 0)
    /\ tzinfo = "US/Eastern"
    /\ probe = NoProbe
    /\ decision = NoDecision
    /\ now \in WeekdayStartInstants
    /\ lastDay = now.day + WeekdayRunDays
    /\ InitAgent

SpecWeekday == InitWeekday /\ [][Next]_vars

(***************************************************************************)
(* Server run: the loop run together with a Flask thread serving requests  *)
(* to /, /status and /test-alert.  A handler is split where it reads or    *)
(* writes the optimizer, so that the worker may run in between.            *)
(***************************************************************************)
loopVars == <<now, pc, status, strong_buys, sleep_seconds, remaining, loaded>>

stateVars == <<is_running, last_update, status_message, last_alerts, alert_count>>

\* the handler has returned its response; a field the route does not
\* return is None
Responded(route, body) ==
    [pc |-> "respond", served |-> handler.served, route |-> route, body |-> body]

\* health_check, line 183: optimizer.last_update is read
HealthCheckReadUpdate ==
    /\ handler.pc = "idle"
    /\ handler.served < MaxRequests
    /\ handler' = [pc |-> "health_message", served |-> handler.served,
                   last_update |-> last_update]
    /\ UNCHANGED <<inputVars, loopVars, stateVars, hist>>

\* health_check, lines 184-187: optimizer.status_message and is_running are
\* read and the response is built
HealthCheckReadMessage ==
    /\ handler.pc = "health_message"
    /\ handler' = Responded("/",
                     [last_update |-> handler.last_update,
                      current_status |-> status_message,
                      is_running |-> is_running,
                      statusStamp |-> hist.msgStamp])
    /\ UNCHANGED <<inputVars, loopVars, stateVars, hist>>

DetailedStatusEvaluate_logs ==
    /\ handler.pc = "idle"
    /\ handler.served < MaxRequests
    /\ handler' = [pc |-> "status_alerts", served |-> handler.served,
                   current_status |-> should_run_now(now),
                   evalAt |-> now,
                   is_market_hours |-> is_market_hours(now),
                   is_extended_hours |-> is_extended_hours(now),
                   total_alerts_sent |-> alert_count]
    /\ last_update' = strftime_full(now)
    /\ status_message' = should_run_now(now).message
    /\ UNCHANGED <<inputVars, loopVars, is_running, last_alerts, alert_count, hist>>

\* detailed_status, lines 192-201: should_run_now and the two predicates are
\* evaluated and optimizer.alert_count is read
DetailedStatusEvaluate ==
    /\ handler.pc = "idle"
    /\ handler.served < MaxRequests
    /\ handler' = [pc |-> "status_alerts", served |-> handler.served,
                   current_status |-> should_run_now(now),
                   evalAt |-> now,
                   is_market_hours |-> is_market_hours(now),
                   is_extended_hours |-> is_extended_hours(now),
                   total_alerts_sent |-> alert_count]
    /\ UNCHANGED <<inputVars, loopVars, stateVars, hist>>

\* detailed_status, lines 202-203: optimizer.last_alerts is read and the
\* response is built
DetailedStatusReadAlerts ==
    /\ handler.pc = "status_alerts"
    /\ handler' = Responded("/status",
                     [should_run |-> handler.current_status.should_run,
                      message |-> handler.current_status.message,
                      next_check |-> handler.current_status.next_check,
                      is_market_hours |-> handler.is_market_hours,
                      is_extended_hours |-> handler.is_extended_hours,
                      total_alerts_sent |-> handler.total_alerts_sent,
                      last_alerts |-> last_alerts])
    /\ UNCHANGED <<inputVars, loopVars, stateVars, hist>>

\* test_alert, line 208
TestBatch == <<"TEST">>

\* test_alert, lines 206-209, and send_email_alert, lines 128-163 and 168-169,
\* on the handler thread
TestAlertSend ==
    /\ handler.pc = "idle"
    /\ handler.served < MaxRequests
    /\ alert_count < MaxAlerts
    /\ \E outcome \in SendOutcomes :
         IF outcome = "sent"
         THEN /\ last_alerts' = TestBatch
              /\ handler' = [pc |-> "test_count_load", served |-> handler.served]
         ELSE /\ last_alerts' = last_alerts
              /\ handler' = Responded("/test-alert", [status |-> "success"])
    /\ UNCHANGED <<inputVars, loopVars, is_running, last_update, status_message,
                   alert_count, hist>>

\* send_email_alert on the handler thread, line 164: alert_count is loaded
TestAlertCountLoad ==
    /\ handler.pc = "test_count_load"
    /\ handler' = [pc |-> "test_count_store", served |-> handler.served,
                   loaded |-> alert_count]
    /\ UNCHANGED <<inputVars, loopVars, stateVars, hist>>

\* send_email_alert on the handler thread, line 164: the sum is stored;
\* test_alert builds its response, line 210
TestAlertCountStore ==
    /\ handler.pc = "test_count_store"
    /\ alert_count' = handler.loaded + Len(TestBatch)
    /\ hist' = [hist EXCEPT !.sent = @ + Len(TestBatch)]
    /\ handler' = Responded("/test-alert", [status |-> "success"])
    /\ UNCHANGED <<inputVars, loopVars, is_running, last_update, status_message,
                   last_alerts>>

\* the response is sent and the thread is free for the next request
Respond ==
    /\ handler.pc = "respond"
    /\ handler' = Idle(handler.served + 1)
    /\ UNCHANGED <<inputVars, loopVars, stateVars, hist>>

InitServer ==
    /\ dt = DT(0, 0, 0, 0, 0)
    /\ tzinfo = "US/Eastern"
    /\ probe = NoProbe
    /\ decision = NoDecision
    /\ now = DT(4, 19, 55, 0, 0)      \* Friday, end of the Extended window
    /\ lastDay = MaxServerDay
    /\ InitAgent

NextServer ==
    \/ Start
    \/ LoopTest
    \/ LogStatusUpdate
    \/ LogStatusMessage
    \/ Analyze
    \/ SendEmailAlert
    \/ AlertCountLoad
    \/ AlertCountStore
    \/ PollWait
    \/ DeepSleep
    \/ HandleException
    \/ WakeUp
    \/ Tick
    \/ RequestStop
    \/ HealthCheckReadUpdate
    \/ HealthCheckReadMessage
    \/ DetailedStatusEvaluate
    \/ DetailedStatusReadAlerts
    \/ TestAlertSend
    \/ TestAlertCountLoad
    \/ TestAlertCountStore
    \/ Respond

SpecServer == InitServer /\ [][NextServer]_vars

(***************************************************************************)
(* Properties of the classifier (checked under SpecClassifier)             *)
(***************************************************************************)
\* time-of-day of d is h:m:00.000000 or later
AtOrAfter(d, h, m) == SecondOfDay(d) >= h * 3600 + m * 60

\* time-of-day of d is h:m:00.000000 or earlier
AtOrBefore(d, h, m) ==
    \/ SecondOfDay(d) < h * 3600 + m * 60
    \/ SecondOfDay(d) = h * 3600 + m * 60 /\ d.microsecond = 0

IsWeekday(d) == d.day % 7 \in 0..4

Classified == decision /= NoDecision

IntervalOf(r) == IF "check_interval" \in DOMAIN r THEN r.check_interval ELSE -1

SleepOf(r) == IF "sleep_minutes" \in DOMAIN r THEN r.sleep_minutes ELSE -1

\* C1: on a weekday with 09:30:00 <= time-of-day <= 16:00:00, should_run_now
\* returns should_run = true with a check interval of 10 minutes.
C1_ActiveWindow ==
    (Classified /\ IsWeekday(dt) /\ AtOrAfter(dt, 9, 30) /\ AtOrBefore(dt, 16, 0))
        => (decision.should_run /\ IntervalOf(decision) = 10)

\* the closing instant 16:00:00.000000 of a Friday has been classified Active
C1_Witness ==
    /\ Classified
    /\ dt = DT(4, 16, 0, 0, 0)
    /\ decision.should_run
    /\ IntervalOf(decision) = 10

\* C2: on a weekday with time-of-day in [07:00:00, 09:30:00) or in
\* (16:00:00, 20:00:00], should_run_now returns should_run = true with a check
\* interval of 60 minutes.
C2_ExtendedWindow ==
    (/\ Classified
     /\ IsWeekday(dt)
     /\ \/ AtOrAfter(dt, 7, 0) /\ ~AtOrAfter(dt, 9, 30)
        \/ ~AtOrBefore(dt, 16, 0) /\ AtOrBefore(dt, 20, 0))
        => (decision.should_run /\ IntervalOf(decision) = 60)

\* the opening instant 07:00:00.000000 of a Monday has been classified Extended
C2_Witness ==
    /\ Classified
    /\ dt = DT(0, 7, 0, 0, 0)
    /\ decision.should_run
    /\ IntervalOf(decision) = 60

\* C3: on a Saturday or Sunday, or on a weekday before 07:00:00 or after
\* 20:00:00, should_run_now returns should_run = false with a sleep of 240
\* minutes.
C3_Dormant ==
    (/\ Classified
     /\ \/ ~IsWeekday(dt)
        \/ ~AtOrAfter(dt, 7, 0)
        \/ ~AtOrBefore(dt, 20, 0))
        => (~decision.should_run /\ SleepOf(decision) = 240)

\* a Saturday noon has been classified Dormant
C3_Witness ==
    /\ Classified
    /\ dt = DT(5, 12, 0, 0, 0)
    /\ ~decision.should_run
    /\ SleepOf(decision) = 240

\* C4: for a Dormant decision, next_check is on a Monday-Friday day, has
\* time-of-day exactly 07:00:00.000000 and is strictly later than the
\* evaluating instant.
C4_NextWake ==
    (Classified /\ ~decision.should_run)
        => /\ IsWeekday(decision.next_check)
           /\ SecondOfDay(decision.next_check) = 7 * 3600
           /\ decision.next_check.microsecond = 0
           /\ dt_lt(dt, decision.next_check)

\* Friday 20:30 has been classified Dormant with next_check the Monday after
C4_Witness ==
    /\ Classified
    /\ dt = DT(4, 20, 30, 0, 0)
    /\ ~decision.should_run
    /\ decision.next_check = DT(7, 7, 0, 0, 0)

\* the Extended window as the specification defines it
InExtendedWindow(d) == IsWeekday(d) /\ AtOrAfter(d, 7, 0) /\ AtOrBefore(d, 20, 0)

\* instants probed between an evaluation and its next_check
Probes ==
    [day : 0..(MaxInputDay + 10), hour : Hours, minute : {0, 30},
     second : {0}, microsecond : {0}]

\* C5: for a Dormant decision, next_check is the NEXT Extended-window open:
\* it is itself in the Extended window and no instant strictly between the
\* evaluating instant and next_check is.
C5_NextOpenIsNearest ==
    (Classified /\ ~decision.should_run)
        => /\ InExtendedWindow(decision.next_check)
           /\ \A x \in Probes :
                (dt_lt(dt, x) /\ dt_lt(x, decision.next_check))
                    => ~InExtendedWindow(x)

\* Saturday 12:00 has been classified Dormant with next_check Monday 07:00
C5_Witness ==
    /\ Classified
    /\ dt = DT(5, 12, 0, 0, 0)
    /\ ~decision.should_run
    /\ decision.next_check = DT(7, 7, 0, 0, 0)
    /\ InExtendedWindow(decision.next_check)

\* the error the specification asks for on an instant without a time zone
InvalidInput == [error |-> "InvalidInput"]

\* C11: evaluating the classifier on an instant that carries no time-zone
\* information fails with InvalidInput and produces no classification.
C11_NaiveInstantRejected ==
    (probe /= NoProbe /\ tzinfo = "naive") => probe = InvalidInput

\* C13: every instant for which is_market_hours is true also satisfies
\* is_extended_hours, and both are false on every Saturday and Sunday.
C13_ActiveWithinExtended ==
    probe /= NoProbe
        => /\ probe.market => probe.extended
           /\ ~IsWeekday(dt) => (~probe.market /\ ~probe.extended)

\* a Friday 16:00:00 instant satisfies both predicates
C13_Witness ==
    /\ probe /= NoProbe
    /\ dt = DT(4, 16, 0, 0, 0)
    /\ probe.market
    /\ probe.extended

(***************************************************************************)
(* Properties of the scheduler loop (checked under Spec and FairSpec)      *)
(***************************************************************************)
\* the worker has finished the body of an iteration
IterationDone == status /= NoDecision /\ pc \in {"sleeping", "top", "done"}

\* C6: in every iteration the task callback is invoked exactly once if the
\* decision has should_run = true and not at all otherwise; it is never
\* invoked from an iteration evaluated on a weekend or outside 07:00-20:00.
C6_CallbackOncePerRunnableIteration ==
    /\ hist.calls <= 1
    /\ IterationDone => hist.calls = (IF status.should_run THEN 1 ELSE 0)
    /\ hist.calls > 0 => InExtendedWindow(hist.evalAt)

\* a runnable iteration has invoked the callback once and finished its wait
C6_Witness ==
    /\ pc = "top"
    /\ status /= NoDecision
    /\ status.should_run
    /\ hist.calls = 1
    /\ hist.slept > 0

\* the wait the decision asks for, in seconds
ExpectedWait(r) == IF r.should_run THEN IntervalOf(r) * 60 ELSE SleepOf(r) * 60

\* C7: in an iteration in which no error is raised the loop blocks for
\* exactly the decision's poll interval (10 or 60 minutes) when should_run is
\* true and exactly the sleep duration (240 minutes) otherwise, and only
\* then starts the next evaluation.
C7_WaitIsDecisionWait ==
    [][ /\ (pc = "sleeping" /\ pc' = "top" /\ ~hist.raised)
            => /\ hist.slept = ExpectedWait(status)
               /\ sleep_seconds = ExpectedWait(status)
               /\ ExpectedWait(status) \in {600, 3600, 14400}
        /\ (pc' = "log_status" /\ pc /= "log_status")
            => (pc = "top" /\ (status /= NoDecision => remaining = 0))
      ]_vars

\* an error-free Extended iteration has waited its 60 minutes
C7_Witness ==
    /\ pc = "top"
    /\ status /= NoDecision
    /\ ~hist.raised
    /\ IntervalOf(status) = 60
    /\ hist.slept = 3600

\* C8: when the callback raises, the error is caught and the loop sleeps
\* exactly 5 minutes before the next evaluation, instead of (not on top of)
\* the poll interval; the following iteration waits its normal wait again.
C8_BackoffReplacesWait ==
    [][ /\ (pc = "analyze" /\ hist'.raised) => pc' = "except"
        /\ (pc = "sleeping" /\ pc' = "top" /\ hist.raised)
            => (hist.slept = 300 /\ sleep_seconds = 300)
        /\ (pc = "sleeping" /\ pc' = "top" /\ ~hist.raised /\ hist.prevRaised)
            => hist.slept = ExpectedWait(status)
      ]_vars

\* an iteration whose callback raised has slept its 5 minutes
C8_Witness ==
    /\ pc = "top"
    /\ hist.raised
    /\ hist.calls = 1
    /\ hist.slept = 300

\* the clock can still advance by the 5 minutes of a backoff
RoomForBackoff == add_seconds(now, 300).day <= lastDay

\* C9: task failures never end the loop: handling an error leaves is_running
\* alone and does not exit, the loop exits only when the test at the top of
\* an iteration sees is_running false, and after an error the loop evaluates
\* again unless it is stopped.
C9_FailuresNeverEndTheLoop ==
    /\ [][ /\ (pc' = "done" /\ pc /= "done") => (pc = "top" /\ ~is_running)
           /\ (pc \in {"analyze", "except"} /\ pc' /= pc)
                => (is_running' = is_running /\ pc' /= "done")
         ]_vars
    /\ (pc = "except" /\ RoomForBackoff) ~> (pc = "log_status" \/ ~is_running)

\* the loop evaluates again, still running, after an iteration that raised
C9_Witness ==
    /\ pc = "log_status"
    /\ is_running
    /\ hist.prevRaised

\* C10: a stop request raised while the loop is blocked in its wait is
\* observed during the wait, so the loop ends less than the 240 minutes of
\* a full Dormant sleep after the request.
C10_StopObservedDuringWait ==
    (pc = "done" /\ hist.stopPc = "sleeping") => hist.sinceStop < 240 * 60

\* the worker is past log_status in the current iteration
Recorded ==
    pc \in {"analyze", "send_email", "count_load", "count_store", "poll_wait",
            "deep_sleep", "except", "sleeping"}

\* C14: in every iteration the decision's message and the timestamp are
\* recorded into status_message and last_update exactly once, before the
\* callback of the iteration is invoked and before the iteration's sleep.
C14_RecordedOnceBeforeCallback ==
    /\ hist.stamps <= 1
    /\ hist.messages <= 1
    /\ Recorded => /\ hist.stamps = 1
                   /\ hist.messages = 1
                   /\ status_message = status.message
                   /\ last_update = strftime_full(hist.evalAt)
    /\ hist.calls > 0 => (hist.stamps = 1 /\ hist.messages = 1)

\* the callback of a Friday iteration has raised while the state already
\* shows that iteration's decision
C14_Witness ==
    /\ pc = "except"
    /\ hist.raised
    /\ hist.messages = 1
    /\ status_message = status.message
    /\ last_update = <<4, 3, 40, 0, "PM", "ET">>

\* C18: when a send fails (SMTP error or missing configuration),
\* send_email_alert leaves alert_count and last_alerts unchanged and raises
\* nothing, so the iteration ends with its 10/60-minute poll interval and
\* not with the 5-minute backoff.
C18_FailedSendIsSwallowed ==
    [][ /\ (pc = "send_email" /\ pc' /= pc /\ pc' /= "count_load")
            => /\ alert_count' = alert_count
               /\ last_alerts' = last_alerts
               /\ pc' = "poll_wait"
               /\ hist'.sendFailed
               /\ ~hist'.raised
        /\ (pc = "sleeping" /\ pc' = "top" /\ hist.sendFailed)
            => /\ hist.slept = IntervalOf(status) * 60
               /\ hist.slept \in {600, 3600}
      ]_vars

\* an iteration whose send failed has waited its 60-minute poll interval
C18_Witness ==
    /\ pc = "top"
    /\ hist.sendFailed
    /\ ~hist.raised
    /\ hist.slept = 3600

C15_HandlersNeverWrite ==
    [][ handler' /= handler => UNCHANGED stateVars ]_vars

\* C16: a status read never observes a torn state: the last_update and
\* status_message of one health-check response were recorded by the same
\* loop iteration (or are both initial), and the alert_count and last_alerts
\* of one /status response reflect the same completed sends (in particular
\* the count is 0 exactly when no batch is shown).
C16_ReadsAreNotTorn ==
    /\ (handler.pc = "respond" /\ handler.route = "/")
          => handler.body.last_update = handler.body.statusStamp
    /\ (handler.pc = "respond" /\ handler.route = "/status")
          => (handler.body.total_alerts_sent = 0
                <=> handler.body.last_alerts = <<>>)

\* no send_email_alert is between its SMTP step and the end of line 164
NoSendInFlight ==
    /\ pc \notin {"count_load", "count_store"}
    /\ handler.pc \notin {"test_count_load", "test_count_store"}

\* C17: after any interleaving of sends by the loop and by /test-alert,
\* alert_count equals the sum of the batch sizes of the sends that
\* completed, and alert_count never decreases.
C17_NoLostAlertCount ==
    /\ [](NoSendInFlight => alert_count = hist.sent)
    /\ [][alert_count' >= alert_count]_vars

(***************************************************************************)
(* Properties of the weekday run (checked under SpecWeekday)               *)
(***************************************************************************)
\* the loop is running and has been since a day before the current one
RunningSinceBefore ==
    /\ pc \notin {"start", "done"}
    /\ is_running
    /\ hist.startDay >= 0
    /\ hist.startDay < now.day

\* C19: while the loop keeps running, the first runnable evaluation of a
\* weekday happens less than 240 minutes after the 07:00 open, and the
\* Active window 09:30-16:00 of the weekday contains at least one
\* invocation of the task callback.
C19_EveryActiveWindowIsVisited ==
    /\ [][ ( /\ pc = "log_status"
             /\ pc' = "log_message"
             /\ status'.should_run
             /\ hist.startDay < now.day
             /\ hist.firstRunDay /= now.day )
            => /\ SecondOfDay(now) >= 7 * 3600
               /\ SecondOfDay(now) < 7 * 3600 + 240 * 60 ]_vars
    /\ []( (RunningSinceBefore /\ IsWeekday(now) /\ ~AtOrBefore(now, 16, 0))
            => hist.activeCallDay = now.day )

\* a loop started on Sunday evening is past Monday's close, has evaluated
\* runnable on Monday and has invoked the callback in Monday's Active window
C19_Witness ==
    /\ RunningSinceBefore
    /\ now.day = 7
    /\ ~AtOrBefore(now, 16, 0)
    /\ hist.firstRunDay = 7
    /\ hist.activeCallDay = 7
====
